---- MODULE Spec2Model ----
(***************************************************************************)
(* Model of jirrah's persistence and domain-integrity layer (src/db.rs,    *)
(* src/models.rs): the JiraDatabase domain store running over the          *)
(* in-memory backend MockDB.  Every domain-store operation is one atomic   *)
(* step: read_db, mutate the loaded snapshot, write_db on success.         *)
(***************************************************************************)
EXTENDS Integers, Sequences, FiniteSets, TLC

\* ---------------------------------------------------------------- bounds

\* The counter is capped: no create is issued once last_item_id = MaxId.
MaxId == 3

\* ------------------------------------------------------------ data model

\* models.rs: enum Status
Status == {"InProgress", "Closed", "Open", "Resolved"}

\* Texts the callers type in as names and descriptions.
Names == {"a"}
Descriptions == {"d"}

\* Identifier arguments the callers may pass: every identifier that can be
\* issued, and one that is never issued.
IdArgs == 1 .. (MaxId + 1)

\* models.rs: struct Epic, as passed to create_epic by its callers
\* (Epic::new and create_epic_prompt both give an empty story list).
EpicInputs ==
  [name : Names, description : Descriptions, status : Status, stories : {<<>>}]

\* models.rs: struct Story, as passed to create_story.
StoryInputs == [name : Names, description : Descriptions, status : Status]

\* MockDB::new: the empty snapshot.
EmptyState == [last_item_id |-> 0, epics |-> <<>>, stories |-> <<>>]

\* ------------------------------------------------------- collection helpers

Range(s) == {s[i] : i \in DOMAIN s}

MaxOf(S) == CHOOSE m \in S : \A x \in S : x <= m

\* HashMap::insert: the value under k is set, replacing an earlier one.
MapInsert(m, k, v) == [x \in (DOMAIN m) \cup {k} |-> IF x = k THEN v ELSE m[x]]

\* HashMap::remove
MapRemove(m, k) == [x \in (DOMAIN m) \ {k} |-> m[x]]

\* The loop of delete_epic: db.stories.remove(story_id) for each story_id.
RECURSIVE RemoveEach(_, _)
RemoveEach(m, ids) ==
  IF ids = <<>> THEN m ELSE RemoveEach(MapRemove(m, Head(ids)), Tail(ids))

\* Vec::retain(|&x| x != id)
Retain(list, id) == SelectSeq(list, LAMBDA x : x # id)

\* db.last_item_id + 1.  The counter is a u32; the cap MaxId keeps every
\* value this specification reaches far below u32::MAX, so the sum is exact.
NextId(n) == n + 1

\* Results: Ok(id), Ok(()) and Err(message).
OkId(id) == [ok |-> TRUE, id |-> id, err |-> ""]
OkUnit == [ok |-> TRUE, id |-> 0, err |-> ""]
Err(msg) == [ok |-> FALSE, id |-> 0, err |-> msg]

\* What one operation does to the snapshot it loaded: its result, whether it
\* called write_db, and the snapshot it handed to write_db.
Outcome(result, wrote, db) == [result |-> result, wrote |-> wrote, db |-> db]

\* ------------------------------------------------------ domain operations

\* create_epic with the identifier taken from the number of stored items
\* instead of the counter.
create_epic_count_items(db, epic) ==
  LET next_id == Cardinality(DOMAIN db.epics) + Cardinality(DOMAIN db.stories) + 1
      db1 == [db EXCEPT !.epics = MapInsert(db.epics, next_id, epic),
                        !.last_item_id = next_id]
  IN  Outcome(OkId(next_id), TRUE, db1)

\* create_epic storing the epic with the status Epic::new gives, not its own.
create_epic_default_status(db, epic) ==
  LET next_id == NextId(db.last_item_id)
      db1 == [db EXCEPT
                !.epics = MapInsert(db.epics, next_id, [epic EXCEPT !.status = "Open"]),
                !.last_item_id = next_id]
  IN  Outcome(OkId(next_id), TRUE, db1)

\* JiraDatabase::create_epic
create_epic(db, epic) ==
  LET next_id == NextId(db.last_item_id)
      db1 == [db EXCEPT !.epics = MapInsert(db.epics, next_id, epic),
                        !.last_item_id = next_id]
  IN  Outcome(OkId(next_id), TRUE, db1)

\* create_story without db.last_item_id = next_id.
create_story_no_advance(db, story, epic_id) ==
  LET next_id == NextId(db.last_item_id)
      db1 == [db EXCEPT !.stories = MapInsert(db.stories, next_id, story)]
  IN  IF epic_id \in DOMAIN db1.epics
      THEN Outcome(OkId(next_id), TRUE,
                   [db1 EXCEPT !.epics[epic_id].stories = Append(@, next_id)])
      ELSE Outcome(Err("Failed to get epic to insert new story"), FALSE, db1)

\* create_story with the identifier pushed onto the story list twice.
create_story_push_twice(db, story, epic_id) ==
  LET next_id == NextId(db.last_item_id)
      db1 == [db EXCEPT !.stories = MapInsert(db.stories, next_id, story)]
  IN  IF epic_id \in DOMAIN db1.epics
      THEN Outcome(OkId(next_id), TRUE,
                   [db1 EXCEPT
                      !.epics[epic_id].stories = Append(Append(@, next_id), next_id),
                      !.last_item_id = next_id])
      ELSE Outcome(Err("Failed to get epic to insert new story"), FALSE, db1)

\* create_story with the identifier put at the front of the story list.
create_story_push_front(db, story, epic_id) ==
  LET next_id == NextId(db.last_item_id)
      db1 == [db EXCEPT !.stories = MapInsert(db.stories, next_id, story)]
  IN  IF epic_id \in DOMAIN db1.epics
      THEN Outcome(OkId(next_id), TRUE,
                   [db1 EXCEPT
                      !.epics[epic_id].stories = <<next_id>> \o @,
                      !.last_item_id = next_id])
      ELSE Outcome(Err("Failed to get epic to insert new story"), FALSE, db1)

\* create_story writing the snapshot before it returns the lookup's error.
create_story_write_on_error(db, story, epic_id) ==
  LET next_id == NextId(db.last_item_id)
      db1 == [db EXCEPT !.stories = MapInsert(db.stories, next_id, story)]
  IN  IF epic_id \in DOMAIN db1.epics
      THEN Outcome(OkId(next_id), TRUE,
                   [db1 EXCEPT
                      !.epics[epic_id].stories = Append(@, next_id),
                      !.last_item_id = next_id])
      ELSE Outcome(Err("Failed to get epic to insert new story"), TRUE, db1)

\* JiraDatabase::create_story: the story is inserted into the loaded snapshot
\* before the epic is looked up; the snapshot is written only if it is found.
create_story(db, story, epic_id) ==
  LET next_id == NextId(db.last_item_id)
      db1 == [db EXCEPT !.stories = MapInsert(db.stories, next_id, story)]
  IN  IF epic_id \in DOMAIN db1.epics
      THEN LET db2 == [db1 EXCEPT
                         !.epics[epic_id].stories = Append(@, next_id),
                         !.last_item_id = next_id]
           IN  Outcome(OkId(next_id), TRUE, db2)
      ELSE Outcome(Err("Failed to get epic to insert new story"), FALSE, db1)

\* delete_epic without the loop that removes the epic's stories.
delete_epic_no_cascade(db, epic_id) ==
  IF epic_id \notin DOMAIN db.epics
  THEN Outcome(Err("No epic found"), FALSE, db)
  ELSE Outcome(OkUnit, TRUE, [db EXCEPT !.epics = MapRemove(db.epics, epic_id)])

\* delete_epic removing only the first story of the epic.
delete_epic_first_only(db, epic_id) ==
  IF epic_id \notin DOMAIN db.epics
  THEN Outcome(Err("No epic found"), FALSE, db)
  ELSE LET stories == db.epics[epic_id].stories
           first == IF stories = <<>> THEN <<>> ELSE <<Head(stories)>>
           db1 == [db EXCEPT !.stories = RemoveEach(db.stories, first)]
       IN  Outcome(OkUnit, TRUE,
                   [db1 EXCEPT !.epics = MapRemove(db1.epics, epic_id)])

\* delete_epic giving the identifiers it freed back to the counter.
delete_epic_reclaim(db, epic_id) ==
  IF epic_id \notin DOMAIN db.epics
  THEN Outcome(Err("No epic found"), FALSE, db)
  ELSE LET stories == db.epics[epic_id].stories
           db1 == [db EXCEPT !.stories = RemoveEach(db.stories, stories)]
           db2 == [db1 EXCEPT !.epics = MapRemove(db1.epics, epic_id)]
           left == (DOMAIN db2.epics) \cup (DOMAIN db2.stories) \cup {0}
       IN  Outcome(OkUnit, TRUE, [db2 EXCEPT !.last_item_id = MaxOf(left)])

\* delete_epic treating an epic that is not there as already deleted.
delete_epic_ignore_missing(db, epic_id) ==
  IF epic_id \notin DOMAIN db.epics
  THEN Outcome(OkUnit, TRUE, db)
  ELSE LET stories == db.epics[epic_id].stories
           db1 == [db EXCEPT !.stories = RemoveEach(db.stories, stories)]
       IN  Outcome(OkUnit, TRUE,
                   [db1 EXCEPT !.epics = MapRemove(db1.epics, epic_id)])

\* JiraDatabase::delete_epic
delete_epic(db, epic_id) ==
  IF epic_id \notin DOMAIN db.epics
  THEN Outcome(Err("No epic found"), FALSE, db)
  ELSE LET stories == db.epics[epic_id].stories
           db1 == [db EXCEPT !.stories = RemoveEach(db.stories, stories)]
       IN  IF epic_id \notin DOMAIN db1.epics
           THEN Outcome(Err("Failed to delete epic"), FALSE, db1)
           ELSE Outcome(OkUnit, TRUE,
                        [db1 EXCEPT !.epics = MapRemove(db1.epics, epic_id)])

\* delete_story writing the snapshot before it returns the epic lookup's error.
delete_story_write_on_error(db, epic_id, story_id) ==
  IF story_id \notin DOMAIN db.stories
  THEN Outcome(Err("Failed to delete story"), FALSE, db)
  ELSE LET db1 == [db EXCEPT !.stories = MapRemove(db.stories, story_id)]
       IN  IF epic_id \in DOMAIN db1.epics
           THEN Outcome(OkUnit, TRUE,
                        [db1 EXCEPT !.epics[epic_id].stories = Retain(@, story_id)])
           ELSE Outcome(Err("Failed to delete story. Epic not found"), TRUE, db1)

\* JiraDatabase::delete_story
delete_story(db, epic_id, story_id) ==
  IF story_id \notin DOMAIN db.stories
  THEN Outcome(Err("Failed to delete story"), FALSE, db)
  ELSE LET db1 == [db EXCEPT !.stories = MapRemove(db.stories, story_id)]
       IN  IF epic_id \in DOMAIN db1.epics
           THEN Outcome(OkUnit, TRUE,
                        [db1 EXCEPT !.epics[epic_id].stories = Retain(@, story_id)])
           ELSE Outcome(Err("Failed to delete story. Epic not found"), FALSE, db1)

\* update_epic_status refusing to move an epic out of Closed.
update_epic_status_no_reopen(db, epic_id, status) ==
  IF epic_id \in DOMAIN db.epics
  THEN IF db.epics[epic_id].status = "Closed" /\ status # "Closed"
       THEN Outcome(Err("Failed to update status of epic. Epic is closed"), FALSE, db)
       ELSE Outcome(OkUnit, TRUE, [db EXCEPT !.epics[epic_id].status = status])
  ELSE Outcome(Err("Failed to update status of epic. No epic found"), FALSE, db)

\* update_epic_status giving the new status to the epic's stories as well.
update_epic_status_cascade(db, epic_id, status) ==
  IF epic_id \in DOMAIN db.epics
  THEN Outcome(OkUnit, TRUE,
         [db EXCEPT
            !.epics[epic_id].status = status,
            !.stories = [id \in DOMAIN db.stories |->
                           IF id \in Range(db.epics[epic_id].stories)
                           THEN [db.stories[id] EXCEPT !.status = status]
                           ELSE db.stories[id]]])
  ELSE Outcome(Err("Failed to update status of epic. No epic found"), FALSE, db)

\* JiraDatabase::update_epic_status
update_epic_status(db, epic_id, status) ==
  IF epic_id \in DOMAIN db.epics
  THEN Outcome(OkUnit, TRUE, [db EXCEPT !.epics[epic_id].status = status])
  ELSE Outcome(Err("Failed to update status of epic. No epic found"), FALSE, db)

\* update_story_status looking the identifier up in epics when it is no story.
update_story_status_any_item(db, story_id, status) ==
  IF story_id \in DOMAIN db.stories
  THEN Outcome(OkUnit, TRUE, [db EXCEPT !.stories[story_id].status = status])
  ELSE IF story_id \in DOMAIN db.epics
       THEN Outcome(OkUnit, TRUE, [db EXCEPT !.epics[story_id].status = status])
       ELSE Outcome(Err("Failed to update status of story. No story found"), FALSE, db)

\* JiraDatabase::update_story_status
update_story_status(db, story_id, status) ==
  IF story_id \in DOMAIN db.stories
  THEN Outcome(OkUnit, TRUE, [db EXCEPT !.stories[story_id].status = status])
  ELSE Outcome(Err("Failed to update status of story. No story found"), FALSE, db)

\* ------------------------------------------------------------------ state

VARIABLES
  last_written_state,  \* MockDB.last_written_state: the persisted snapshot
  op,                  \* the most recent domain-store operation called
  ret,                 \* the Result that call returned
  wrote,               \* whether that call reached Database::write_db
  pre,                 \* the persisted snapshot when that call started
  issued,              \* the identifiers returned by successful creates, in order
  written,             \* whether write_db was ever called, and its latest argument
  file,                \* JSONFileDatabase: the file at file_path
  procs                \* the processes sharing that file, each inside one operation

vars == <<last_written_state, op, ret, wrote, pre, issued, written, file, procs>>

\* The file at file_path: whether it exists, whether its text is well-formed
\* JSON, and the JSON value the text denotes.
NoJson == [last_item_id |-> 0, epics |-> {}, stories |-> {}]
NoFile == [exists |-> FALSE, wellformed |-> FALSE, json |-> NoJson]

\* No process is inside an operation.
Procs == {"A", "B"}
Idle ==
  [pc |-> "idle", out |-> Outcome(OkUnit, FALSE, EmptyState), ret |-> OkUnit,
   during |-> {}]
AllIdle == [p \in Procs |-> Idle]

\* No write_db call yet.
NeverWritten == [called |-> FALSE, arg |-> EmptyState]

\* MockDB::read_db: a clone of the stored snapshot.
read_db == last_written_state

\* write_db storing a fresh default snapshot instead of the clone.
write_db_store_default(db_state) == EmptyState

\* MockDB::write_db: the stored snapshot is replaced by a clone of db_state.
write_db(db_state) == db_state

Creates == {"create_epic", "create_story"}

\* One call of the domain store: o is the operation, out what it made of the
\* snapshot read_db returned.
Step(o, out) ==
  /\ pre' = read_db
  /\ op' = o
  /\ ret' = out.result
  /\ wrote' = out.wrote
  /\ last_written_state' =
       IF out.wrote THEN write_db(out.db) ELSE last_written_state
  /\ issued' = IF o \in Creates /\ out.result.ok
               THEN Append(issued, out.result.id)
               ELSE issued
  /\ written' = IF out.wrote THEN [called |-> TRUE, arg |-> out.db] ELSE written
  /\ UNCHANGED <<file, procs>>

\* JiraDatabase { database: Box::new(MockDB::new()) }
Init ==
  /\ last_written_state = EmptyState
  /\ op = "new"
  /\ ret = OkUnit
  /\ wrote = FALSE
  /\ pre = EmptyState
  /\ issued = <<>>
  /\ written = NeverWritten
  /\ file = NoFile
  /\ procs = AllIdle

\* JiraDatabase::read_db: Ok(snapshot), the snapshot being what the backend's
\* read_db returned (pre).
ReadDbCall == Step("read_db", Outcome(OkUnit, FALSE, read_db))

\* The calls, by argument.
CreateEpicCall(epic) == Step("create_epic", create_epic(read_db, epic))

CreateStoryCall(story, epic_id) ==
  Step("create_story", create_story(read_db, story, epic_id))

DeleteEpicCall(epic_id) == Step("delete_epic", delete_epic(read_db, epic_id))

DeleteStoryCall(epic_id, story_id) ==
  Step("delete_story", delete_story(read_db, epic_id, story_id))

UpdateEpicStatusCall(epic_id, status) ==
  Step("update_epic_status", update_epic_status(read_db, epic_id, status))

UpdateStoryStatusCall(story_id, status) ==
  Step("update_story_status", update_story_status(read_db, story_id, status))

CreateEpic ==
  /\ last_written_state.last_item_id < MaxId
  /\ \E epic \in EpicInputs : CreateEpicCall(epic)

CreateStory ==
  /\ last_written_state.last_item_id < MaxId
  /\ \E story \in StoryInputs, epic_id \in IdArgs : CreateStoryCall(story, epic_id)

DeleteEpic ==
  /\ \E epic_id \in IdArgs : DeleteEpicCall(epic_id)

DeleteStory ==
  /\ \E epic_id \in IdArgs, story_id \in IdArgs : DeleteStoryCall(epic_id, story_id)

UpdateEpicStatus ==
  /\ \E epic_id \in IdArgs, status \in Status : UpdateEpicStatusCall(epic_id, status)

UpdateStoryStatus ==
  /\ \E story_id \in IdArgs, status \in Status : UpdateStoryStatusCall(story_id, status)

ReadDb ==
  /\ ReadDbCall

Next ==
  \/ ReadDb
  \/ CreateEpic
  \/ CreateStory
  \/ DeleteEpic
  \/ DeleteStory
  \/ UpdateEpicStatus
  \/ UpdateStoryStatus

Spec == Init /\ [][Next]_vars

\* ------------------------------------------------------- shape of the state

\* Shorthands for the persisted snapshot.
last_item_id == last_written_state.last_item_id
epics == last_written_state.epics
stories == last_written_state.stories

\* The identifiers that are keys of either collection of a snapshot.
Keys(db) == (DOMAIN db.epics) \cup (DOMAIN db.stories)

\* The epics of a snapshot whose story list holds id.
Owners(db, id) == {e \in DOMAIN db.epics : id \in Range(db.epics[e].stories)}

\* How often id occurs in a story list.
Count(list, id) == Cardinality({i \in DOMAIN list : list[i] = id})

TypeOK ==
  /\ last_item_id \in 0 .. MaxId
  /\ DOMAIN epics \subseteq 1 .. MaxId
  /\ DOMAIN stories \subseteq 1 .. MaxId
  /\ \A e \in DOMAIN epics :
       /\ epics[e].status \in Status
       /\ epics[e].name \in Names
       /\ epics[e].description \in Descriptions
       /\ Range(epics[e].stories) \subseteq 1 .. MaxId
  /\ \A s \in DOMAIN stories : stories[s] \in StoryInputs
  /\ wrote \in BOOLEAN
  /\ ret.ok \in BOOLEAN

\* ------------------------------------------------------ JSONFileDatabase

\* The cap of the counter in the specification of the file-backed store.
MaxFileId == 2

\* The decimal text of a map key, as a sequence of digits: serde_json writes
\* the u32 keys of a HashMap as JSON strings.
RECURSIVE ToDecimal(_)
ToDecimal(n) == IF n < 10 THEN <<n>> ELSE ToDecimal(n \div 10) \o <<n % 10>>

\* Whether a key text is a JSON number without sign, fraction or leading zero.
IsDecimal(t) ==
  /\ Len(t) >= 1
  /\ \A i \in DOMAIN t : t[i] \in 0 .. 9
  /\ Len(t) > 1 => t[1] # 0

\* The u32 a key text denotes.
RECURSIVE FromDecimal(_)
FromDecimal(t) ==
  IF Len(t) = 1 THEN t[1]
  ELSE 10 * FromDecimal(SubSeq(t, 1, Len(t) - 1)) + t[Len(t)]

\* A JSON object whose key texts keep only the last digit of the identifier.
ToObject_last_digit(m) == {<<<<id % 10>>, m[id]>> : id \in DOMAIN m}

\* A HashMap<u32, V> as a JSON object: one member per entry, in no order.
ToObject(m) == {<<ToDecimal(id), m[id]>> : id \in DOMAIN m}

\* The HashMap<u32, V> a JSON object denotes.
FromObject(obj) ==
  [id \in {FromDecimal(member[1]) : member \in obj} |->
     (CHOOSE member \in obj : FromDecimal(member[1]) = id)[2]]

\* serde_json::to_string_pretty(db_state): the JSON value of the text.
to_string_pretty(db_state) ==
  [last_item_id |-> db_state.last_item_id,
   epics |-> ToObject(db_state.epics),
   stories |-> ToObject(db_state.stories)]

\* Results of Database::read_db: Ok(snapshot) and Err(message).
LoadOk(db) == [ok |-> TRUE, err |-> "", db |-> db]
LoadErr(msg) == [ok |-> FALSE, err |-> msg, db |-> EmptyState]

\* serde_json::from_reader: a format error unless every key is a u32 and every
\* status one of the four variants.
from_reader(json) ==
  IF /\ \A member \in json.epics \cup json.stories :
          /\ IsDecimal(member[1])
          /\ member[2].status \in Status
  THEN LoadOk([last_item_id |-> json.last_item_id,
               epics |-> FromObject(json.epics),
               stories |-> FromObject(json.stories)])
  ELSE LoadErr("format error")

\* JSONFileDatabase::read_db with a missing file read as an empty store.
JSONFile_read_db_default_if_missing(f) ==
  IF ~f.exists THEN LoadOk(EmptyState)
  ELSE IF ~f.wellformed THEN LoadErr("format error")
  ELSE from_reader(f.json)

\* JSONFileDatabase::read_db
JSONFile_read_db(f) ==
  IF ~f.exists THEN LoadErr("No such file or directory")
  ELSE IF ~f.wellformed THEN LoadErr("format error")
  ELSE from_reader(f.json)

\* A write_db that keeps the members of f's collections it does not rewrite.
JSONFile_write_db_merge(f, db_state) ==
  LET new == to_string_pretty(db_state)
      Kept(old, obj) ==
        {member \in old : \A other \in obj : other[1] # member[1]}
  IN  [exists |-> TRUE, wellformed |-> TRUE,
       json |-> [last_item_id |-> new.last_item_id,
                 epics |-> new.epics \cup Kept(f.json.epics, new.epics),
                 stories |-> new.stories \cup Kept(f.json.stories, new.stories)]]

\* JSONFileDatabase::write_db: std::fs::write replaces the whole file f.
JSONFile_write_db(f, db_state) ==
  [exists |-> TRUE, wellformed |-> TRUE, json |-> to_string_pretty(db_state)]

\* A file whose text is not JSON, and the file of the empty snapshot.
MalformedFile == [exists |-> TRUE, wellformed |-> FALSE, json |-> NoJson]
EmptyFile == JSONFile_write_db(NoFile, EmptyState)

\* A file of well-formed JSON with a status that is no variant of Status.
BadStatusFile ==
  [exists |-> TRUE, wellformed |-> TRUE,
   json |-> [last_item_id |-> 1,
             epics |-> {<<<<1>>, [name |-> "a", description |-> "d",
                                  status |-> "Done", stories |-> <<>>]>>},
             stories |-> {}]]

\* What may be at file_path when the store is constructed.
InitialFiles == {NoFile, MalformedFile, BadStatusFile, EmptyFile}

\* The ? after self.database.read_db(): the operation ends with the load's
\* error, or goes on to out.
Propagate(load, out) ==
  IF load.ok THEN out ELSE Outcome(Err(load.err), FALSE, load.db)

FileIdArgs == 1 .. (MaxFileId + 1)

\* One call of the domain store over the file: o is the operation, out what it
\* makes of the snapshot loaded from the file.
FileStep(o, load, out) ==
  LET res == Propagate(load, out)
  IN  /\ pre' = load.db
      /\ op' = o
      /\ ret' = res.result
      /\ wrote' = res.wrote
      /\ file' = IF res.wrote THEN JSONFile_write_db(file, res.db) ELSE file
      /\ written' = IF res.wrote THEN [called |-> TRUE, arg |-> res.db] ELSE written
      /\ UNCHANGED <<last_written_state, issued, procs>>

\* JiraDatabase::new(file_path)
FileInit ==
  /\ file \in InitialFiles
  /\ last_written_state = EmptyState
  /\ op = "new"
  /\ ret = OkUnit
  /\ wrote = FALSE
  /\ pre = EmptyState
  /\ issued = <<>>
  /\ written = NeverWritten
  /\ procs = AllIdle

\* The snapshot the file-backed read_db gives now (EmptyState with an error).
Loaded == JSONFile_read_db(file)

FileReadDb ==
  /\ FileStep("read_db", Loaded, Outcome(OkUnit, FALSE, Loaded.db))

FileCreateEpic ==
  /\ Loaded.db.last_item_id < MaxFileId
  /\ \E epic \in EpicInputs :
       FileStep("create_epic", Loaded, create_epic(Loaded.db, epic))

FileCreateStory ==
  /\ Loaded.db.last_item_id < MaxFileId
  /\ \E story \in StoryInputs, epic_id \in FileIdArgs :
       FileStep("create_story", Loaded, create_story(Loaded.db, story, epic_id))

FileDeleteEpic ==
  /\ \E epic_id \in FileIdArgs :
       FileStep("delete_epic", Loaded, delete_epic(Loaded.db, epic_id))

FileDeleteStory ==
  /\ \E epic_id \in FileIdArgs, story_id \in FileIdArgs :
       FileStep("delete_story", Loaded, delete_story(Loaded.db, epic_id, story_id))

FileUpdateEpicStatus ==
  /\ \E epic_id \in FileIdArgs, status \in Status :
       FileStep("update_epic_status", Loaded,
                update_epic_status(Loaded.db, epic_id, status))

FileUpdateStoryStatus ==
  /\ \E story_id \in FileIdArgs, status \in Status :
       FileStep("update_story_status", Loaded,
                update_story_status(Loaded.db, story_id, status))

FileNext ==
  \/ FileReadDb
  \/ FileCreateEpic
  \/ FileCreateStory
  \/ FileDeleteEpic
  \/ FileDeleteStory
  \/ FileUpdateEpicStatus
  \/ FileUpdateStoryStatus

SpecFile == FileInit /\ [][FileNext]_vars

\* ------------------------------------------- write_db then read_db on a file

\* The snapshots written in the round trip: keys of one and of two digits, a
\* counter unrelated to the keys, every status, story lists naming any ids.
RtKeys == {1, 12}
RtStoryKeys == {2}
RtLists == {<<>>, <<2, 12>>}
RtEpics ==
  [name : Names, description : Descriptions, status : Status, stories : RtLists]
RtStories == [name : Names, description : Descriptions, status : Status]
Maps(K, V) == UNION {[S -> V] : S \in SUBSET K}
RtSnapshots ==
  [last_item_id : {0, 12}, epics : Maps(RtKeys, RtEpics),
   stories : Maps(RtStoryKeys, RtStories)]

\* JSONFileDatabase::write_db(db_state), called directly.
RtWrite ==
  /\ \E db_state \in RtSnapshots :
       /\ file' = JSONFile_write_db(file, db_state)
       /\ written' = [called |-> TRUE, arg |-> db_state]
  /\ op' = "write_db"
  /\ ret' = OkUnit
  /\ wrote' = TRUE
  /\ pre' = EmptyState
  /\ UNCHANGED <<last_written_state, issued, procs>>

\* JSONFileDatabase::read_db(), called directly; pre records what it returned.
RtRead ==
  /\ op' = "read_db"
  /\ ret' = IF Loaded.ok THEN OkUnit ELSE Err(Loaded.err)
  /\ wrote' = FALSE
  /\ pre' = Loaded.db
  /\ UNCHANGED <<file, written, last_written_state, issued, procs>>

RtNext ==
  \/ RtWrite
  \/ RtRead

SpecRoundTrip == FileInit /\ [][RtNext]_vars

\* ------------------------------------------ two processes sharing the file

\* The cap of the counter in the specification of the two processes.
MaxRaceId == 2

\* The epics the processes create: told apart by their status.
RaceEpics == {epic \in EpicInputs : epic.status \in {"Open", "Closed"}}

\* Process p enters create_epic: it loads the file and builds the snapshot it
\* is going to persist; during records who else is between load and persist.
Load(p) ==
  /\ procs[p].pc = "idle"
  /\ Loaded.db.last_item_id < MaxRaceId
  /\ \E epic \in RaceEpics :
       procs' = [procs EXCEPT ![p] =
                   [pc |-> "loaded",
                    out |-> Propagate(Loaded, create_epic(Loaded.db, epic)),
                    ret |-> @.ret,
                    during |-> {q \in Procs \ {p} : procs[q].pc = "loaded"}]]
  /\ UNCHANGED <<file, written, last_written_state, op, ret, wrote, pre, issued>>

\* Process p leaves create_epic: write_db of its snapshot unless the load
\* failed, then the result goes to the caller.
Persist(p) ==
  /\ procs[p].pc = "loaded"
  /\ LET out == procs[p].out
     IN  /\ file' = IF out.wrote THEN JSONFile_write_db(file, out.db) ELSE file
         /\ written' = IF out.wrote THEN [called |-> TRUE, arg |-> out.db]
                       ELSE written
         /\ procs' = [procs EXCEPT ![p] =
                        [pc |-> "idle", out |-> out, ret |-> out.result,
                         during |-> @.during]]
  /\ UNCHANGED <<last_written_state, op, ret, wrote, pre, issued>>

RaceLoad ==
  /\ \E p \in Procs : Load(p)

RacePersist ==
  /\ \E p \in Procs : Persist(p)

RaceNext ==
  \/ RaceLoad
  \/ RacePersist

SpecRace == FileInit /\ [][RaceNext]_vars

\* ------------------------------------------- the counter at its u32 width

\* A u32 is written as <<high, low>>, two 16-bit halves, each below Half.
Half == 65536
U32Zero == <<0, 0>>
U32Max == <<Half - 1, Half - 1>>

\* b is the number a + 1.
IsSuccessor(a, b) ==
  \/ b[1] = a[1] /\ b[2] = a[2] + 1
  \/ b[1] = a[1] + 1 /\ b[2] = 0 /\ a[2] = Half - 1

\* a < b
U32Less(a, b) == a[1] < b[1] \/ (a[1] = b[1] /\ a[2] < b[2])

\* n.wrapping_add(1): what n + 1 gives in a build without overflow checks.
wrapping_add_one(n) ==
  IF n[2] + 1 < Half THEN <<n[1], n[2] + 1>>
  ELSE IF n[1] + 1 < Half THEN <<n[1] + 1, 0>>
  ELSE U32Zero

\* The thread panicked: the call returns nothing to its caller.
Panicked == [ok |-> FALSE, id |-> U32Zero, err |-> "attempt to add with overflow"]

\* JiraDatabase::create_epic with the counter a u32: the outcomes the builds
\* give. db.last_item_id + 1 at u32::MAX panics with overflow checks and
\* wraps without them.
create_epic_u32(db, epic) ==
  LET next_id == wrapping_add_one(db.last_item_id)
      db1 == [db EXCEPT !.epics = MapInsert(db.epics, next_id, epic),
                        !.last_item_id = next_id]
  IN  IF db.last_item_id = U32Max
      THEN {Outcome(Panicked, FALSE, db), Outcome(OkId(next_id), TRUE, db1)}
      ELSE {Outcome(OkId(next_id), TRUE, db1)}

\* The number of create_epic calls in one behaviour.
MaxU32Creates == 2

\* Counters of the snapshots the store starts from: read_db loads every u32.
U32Seeds == {U32Zero, <<0, Half - 1>>, <<Half - 1, Half - 2>>, U32Max}

U32Init ==
  /\ last_written_state \in
       {[last_item_id |-> n, epics |-> <<>>, stories |-> <<>>] : n \in U32Seeds}
  /\ op = "new"
  /\ ret = [ok |-> TRUE, id |-> U32Zero, err |-> ""]
  /\ wrote = FALSE
  /\ pre = last_written_state
  /\ issued = <<>>
  /\ written = NeverWritten
  /\ file = NoFile
  /\ procs = AllIdle

U32CreateEpic ==
  /\ ret.err # Panicked.err
  /\ Len(issued) < MaxU32Creates
  /\ \E epic \in EpicInputs :
       \E out \in create_epic_u32(read_db, epic) : Step("create_epic", out)

U32ReadDb ==
  /\ ret.err # Panicked.err
  /\ Step("read_db", Outcome([ok |-> TRUE, id |-> U32Zero, err |-> ""], FALSE, read_db))

U32Next ==
  \/ U32CreateEpic
  \/ U32ReadDb

SpecU32 == U32Init /\ [][U32Next]_vars

\* ------------------------------------------------ invariants of the snapshot

\* C1: every identifier in every epic's story list is a key of the persisted
\* stories collection.
C1_ReferentialIntegrity ==
  \A e \in DOMAIN epics : Range(epics[e].stories) \subseteq DOMAIN stories

\* C2: every key of the persisted stories collection is in the story list of
\* exactly one epic of the persisted epics collection.
C2_NoOrphanStories ==
  \A s \in DOMAIN stories : Cardinality(Owners(last_written_state, s)) = 1

\* A story is still stored, with its epic, after a delete_story that succeeded.
C2_Witness ==
  /\ op = "delete_story"
  /\ ret.ok
  /\ DOMAIN stories # {}

\* C3: no story identifier is in the story lists of two epics, and none occurs
\* twice in one epic's story list.
C3_ExclusiveOwnership ==
  \A e \in DOMAIN epics :
    \A id \in Range(epics[e].stories) :
      /\ Owners(last_written_state, id) = {e}
      /\ Count(epics[e].stories, id) = 1

\* Two epics are stored and one of them holds a story.
C3_Witness ==
  /\ Cardinality(DOMAIN epics) = 2
  /\ \E e \in DOMAIN epics : epics[e].stories # <<>>
  /\ DOMAIN stories # {}

\* C4: the identifiers returned by successful creates are pairwise different,
\* whatever was deleted in between, and no identifier is a key of both epics
\* and stories.
C4_IdentifiersUnique ==
  /\ \A i, j \in DOMAIN issued : issued[i] = issued[j] => i = j
  /\ (DOMAIN epics) \cap (DOMAIN stories) = {}

\* A create succeeded after an earlier item had been deleted.
C4_Witness ==
  /\ op \in Creates
  /\ ret.ok
  /\ \E i \in DOMAIN issued : issued[i] \notin Keys(last_written_state)
  /\ \E i \in DOMAIN issued : issued[i] \in DOMAIN stories

\* C5 as stated: after every successful operation last_item_id is the largest
\* key of either collection, or 0 if both are empty.
C5_LastIdIsMaxPresent ==
  (op # "new" /\ ret.ok) =>
    last_item_id = MaxOf(Keys(last_written_state) \cup {0})

\* C5 amended: last_item_id is the largest identifier ever issued (0 if none
\* was), so it is at least every key present, and it is the largest key
\* present exactly when the item issued last is still stored.
C5_LastIdIsMaxIssued ==
  /\ last_item_id = MaxOf(Range(issued) \cup {0})
  /\ \A k \in Keys(last_written_state) : k <= last_item_id
  /\ (last_item_id = MaxOf(Keys(last_written_state) \cup {0}))
       <=> (last_item_id = 0 \/ last_item_id \in Keys(last_written_state))

\* A successful delete left last_item_id above every key still present.
C5_Witness ==
  /\ op \in {"delete_epic", "delete_story"}
  /\ ret.ok
  /\ last_item_id > MaxOf(Keys(last_written_state) \cup {0})
  /\ Keys(last_written_state) # {}

\* ------------------------------------------------------ the operations

\* C6: no operation, successful or failed, lowers the persisted last_item_id,
\* and only a successful create_epic or create_story raises it.
C6_LastIdNeverDecreases ==
  [][/\ last_item_id' >= last_item_id
     /\ last_item_id' > last_item_id => (op' \in Creates /\ ret'.ok)]_vars

\* A successful delete removed the item issued last and left the counter.
C6_Witness ==
  /\ op \in {"delete_epic", "delete_story"}
  /\ ret.ok
  /\ pre.last_item_id \in Keys(pre)
  /\ last_item_id \notin Keys(last_written_state)
  /\ last_item_id = pre.last_item_id

\* C7: create_epic(epic) on a snapshot with counter n returns n + 1, and
\* read_db then shows last_item_id = n + 1 and epics[n + 1] = epic.
C7_CreateEpic ==
  [][\A epic \in EpicInputs :
       (op' = "create_epic" /\ CreateEpicCall(epic)) =>
         LET n == last_item_id
         IN  /\ ret' = OkId(n + 1)
             /\ read_db'.last_item_id = n + 1
             /\ (n + 1) \in DOMAIN read_db'.epics
             /\ read_db'.epics[n + 1] = epic]_vars

\* A create_epic after earlier creates stored an epic that is not Open.
C7_Witness ==
  /\ op = "create_epic"
  /\ ret.ok
  /\ ret.id = pre.last_item_id + 1
  /\ ret.id >= 2
  /\ ret.id \in DOMAIN epics
  /\ epics[ret.id].status # "Open"

\* C8: create_story(story, epic_id) with epic_id in epics, on a snapshot with
\* counter n, returns n + 1, sets last_item_id to n + 1, stores story under
\* n + 1 and appends n + 1 to the end of epics[epic_id].stories, where it then
\* occurs once.
C8_CreateStory ==
  [][\A story \in StoryInputs, epic_id \in IdArgs :
       (/\ op' = "create_story"
        /\ epic_id \in DOMAIN epics
        /\ CreateStoryCall(story, epic_id)) =>
         LET n == last_item_id
         IN  /\ ret' = OkId(n + 1)
             /\ last_item_id' = n + 1
             /\ (n + 1) \in DOMAIN stories'
             /\ stories'[n + 1] = story
             /\ epics'[epic_id].stories = Append(epics[epic_id].stories, n + 1)
             /\ Count(epics'[epic_id].stories, n + 1) = 1]_vars

\* A create_story added a second story to an epic.
C8_Witness ==
  /\ op = "create_story"
  /\ ret.ok
  /\ \E e \in DOMAIN pre.epics :
       /\ Len(pre.epics[e].stories) = 1
       /\ epics[e].stories = Append(pre.epics[e].stories, ret.id)

\* C9: create_story(story, epic_id) with epic_id not in epics returns an
\* error, does not call write_db, and leaves the persisted snapshot as it was.
C9_CreateStoryNoEpic ==
  [][\A story \in StoryInputs, epic_id \in IdArgs :
       (/\ op' = "create_story"
        /\ epic_id \notin DOMAIN epics
        /\ CreateStoryCall(story, epic_id)) =>
         /\ ~ret'.ok
         /\ ~wrote'
         /\ last_written_state' = last_written_state]_vars

\* A create_story failed while other epics and stories were stored.
C9_Witness ==
  /\ op = "create_story"
  /\ ~ret.ok
  /\ ~wrote
  /\ last_written_state = pre
  /\ DOMAIN epics # {}
  /\ DOMAIN stories # {}

\* C10: a successful delete_epic(epic_id) removes epic_id from epics and every
\* identifier of that epic's story list from stories, and leaves last_item_id;
\* afterwards none of these identifiers is a key of epics or stories.
C10_DeleteEpicCascades ==
  [][\A epic_id \in IdArgs :
       (/\ op' = "delete_epic"
        /\ ret'.ok
        /\ epic_id \in DOMAIN epics
        /\ DeleteEpicCall(epic_id)) =>
         /\ wrote'
         /\ last_item_id' = last_item_id
         /\ \A id \in {epic_id} \cup Range(epics[epic_id].stories) :
              id \notin Keys(last_written_state')]_vars

\* A delete_epic removed an epic together with two stored stories.
C10_Witness ==
  /\ op = "delete_epic"
  /\ ret.ok
  /\ \E e \in (DOMAIN pre.epics) \ (DOMAIN epics) :
       /\ Len(pre.epics[e].stories) = 2
       /\ Range(pre.epics[e].stories) \subseteq DOMAIN pre.stories
       /\ Range(pre.epics[e].stories) \cap DOMAIN stories = {}

\* The snapshot read_db shows after a call that ended with outcome out.
Persisted(out) == IF out.wrote THEN write_db(out.db) ELSE read_db

\* C11: delete_epic(epic_id) with epic_id not in epics returns an error, does
\* not call write_db, and leaves the persisted snapshot as it was.
C11_DeleteEpicNoEpic ==
  /\ \A epic_id \in IdArgs \ DOMAIN epics :
       LET out == delete_epic(read_db, epic_id)
       IN  /\ ~out.result.ok
           /\ ~out.wrote
           /\ Persisted(out) = last_written_state
  /\ (op = "delete_epic" /\ ~ret.ok) => (~wrote /\ last_written_state = pre)

\* A delete_epic failed while epics and stories were stored.
C11_Witness ==
  /\ op = "delete_epic"
  /\ ~ret.ok
  /\ ~wrote
  /\ last_written_state = pre
  /\ DOMAIN epics # {}
  /\ DOMAIN stories # {}

\* C12: a successful delete_story(epic_id, story_id) removes story_id from
\* stories and from the story list of the epic that contained it, so that
\* story_id is then in no epic's story list and no key of stories;
\* last_item_id is unchanged.
C12_DeleteStoryRemoves ==
  [][op' = "delete_story" =>
     \A epic_id \in IdArgs, story_id \in IdArgs :
       (/\ ret'.ok
        /\ DeleteStoryCall(epic_id, story_id)) =>
         /\ story_id \notin DOMAIN stories'
         /\ Owners(last_written_state', story_id) = {}
         /\ last_item_id' = last_item_id]_vars

\* C13: delete_story(epic_id, story_id) fails, and persists nothing, whenever
\* story_id is not in the story list of epics[epic_id].
C13_DeleteStoryNotInEpic ==
  [][op' = "delete_story" =>
     \A epic_id \in IdArgs, story_id \in IdArgs :
       (/\ ~(/\ epic_id \in DOMAIN epics
             /\ story_id \in Range(epics[epic_id].stories))
        /\ DeleteStoryCall(epic_id, story_id)) =>
         /\ ~ret'.ok
         /\ ~wrote'
         /\ last_written_state' = last_written_state]_vars

\* C14: delete_story(epic_id, story_id) with story_id in stories and epic_id
\* not in epics returns an error without calling write_db: read_db still
\* shows the story, the story list of its owning epic with story_id in it,
\* and the same last_item_id.
C14_DeleteStoryNoEpic ==
  /\ \A epic_id \in IdArgs \ DOMAIN epics, story_id \in DOMAIN stories :
       LET out == delete_story(read_db, epic_id, story_id)
           after == Persisted(out)
       IN  /\ ~out.result.ok
           /\ ~out.wrote
           /\ story_id \in DOMAIN after.stories
           /\ after.stories[story_id] = stories[story_id]
           /\ Owners(after, story_id) # {}
           /\ \A e \in Owners(after, story_id) :
                after.epics[e].stories = epics[e].stories
           /\ after.last_item_id = last_item_id
  /\ (op = "delete_story" /\ ~ret.ok) => (~wrote /\ last_written_state = pre)

\* A delete_story found the story, then failed on the epic.
C14_Witness ==
  /\ op = "delete_story"
  /\ ret = Err("Failed to delete story. Epic not found")
  /\ ~wrote
  /\ DOMAIN stories # {}
  /\ last_written_state = pre

\* C15: for every stored epic (story) and every new status, whatever the
\* current one, update_epic_status (update_story_status) succeeds and read_db
\* then shows the item with the new status.
C15_StatusUpdatesUnconditional ==
  /\ \A epic_id \in DOMAIN epics, status \in Status :
       LET out == update_epic_status(read_db, epic_id, status)
       IN  /\ out.result.ok
           /\ Persisted(out).epics[epic_id].status = status
  /\ \A story_id \in DOMAIN stories, status \in Status :
       LET out == update_story_status(read_db, story_id, status)
       IN  /\ out.result.ok
           /\ Persisted(out).stories[story_id].status = status
  /\ (op \in {"update_epic_status", "update_story_status"} /\ ret.ok) => wrote

\* An update_epic_status moved an epic from Closed back to Open.
C15_Witness ==
  /\ op = "update_epic_status"
  /\ ret.ok
  /\ \E e \in DOMAIN epics :
       /\ pre.epics[e].status = "Closed"
       /\ epics[e].status = "Open"

\* C16: update_epic_status with an identifier that is no key of epics, and
\* update_story_status with one that is no key of stories (a story's and an
\* epic's identifier included), return an error, do not call write_db and
\* leave the persisted snapshot as it was.
C16_StatusUpdateNotFound ==
  /\ \A epic_id \in IdArgs \ DOMAIN epics, status \in Status :
       LET out == update_epic_status(read_db, epic_id, status)
       IN  /\ ~out.result.ok
           /\ ~out.wrote
           /\ Persisted(out) = last_written_state
  /\ \A story_id \in IdArgs \ DOMAIN stories, status \in Status :
       LET out == update_story_status(read_db, story_id, status)
       IN  /\ ~out.result.ok
           /\ ~out.wrote
           /\ Persisted(out) = last_written_state
  /\ (op \in {"update_epic_status", "update_story_status"} /\ ~ret.ok) =>
       (~wrote /\ last_written_state = pre)

\* An update_story_status failed while epics and stories were stored.
C16_Witness ==
  /\ op = "update_story_status"
  /\ ~ret.ok
  /\ ~wrote
  /\ last_written_state = pre
  /\ DOMAIN epics # {}
  /\ DOMAIN stories # {}

\* C17: MockDB's read_db returns the empty snapshot while write_db was never
\* called, and the argument of the latest write_db after that; a read_db
\* returns what the next read_db returns too.
C17_MockReadsLatestWrite ==
  /\ read_db = IF written.called THEN written.arg ELSE EmptyState
  /\ op = "read_db" => (pre = read_db /\ ~wrote)

\* A read_db returned the snapshot that the latest write_db was given.
C17_Witness ==
  /\ op = "read_db"
  /\ written.called
  /\ pre = written.arg
  /\ Keys(pre) # {}

\* C18 as stated: used for the first time with no file at file_path, the
\* store works on the empty snapshot, so the first create_epic returns 1.
C18_FirstUseWorks ==
  [][(op' = "create_epic" /\ ~file.exists) => ret' = OkId(1)]_vars

\* C18 amended: with no file at file_path every domain-store operation
\* returns the error of read_db, writes nothing and creates no file; the
\* store starts from last_item_id = 0, the first create_epic returning 1, when
\* the file holds the empty snapshot.
C18_NoFileNoStore ==
  /\ ~file.exists =>
       /\ ~Loaded.ok
       /\ \A epic \in EpicInputs :
            LET out == Propagate(Loaded, create_epic(Loaded.db, epic))
            IN  ~out.result.ok /\ ~out.wrote
       /\ op # "new" => (~ret.ok /\ ~wrote)
  /\ file = EmptyFile =>
       \A epic \in EpicInputs :
         LET out == Propagate(Loaded, create_epic(Loaded.db, epic))
         IN  out.result = OkId(1) /\ out.wrote
  /\ (op = "create_epic" /\ ret.ok /\ pre = EmptyState) =>
       (ret = OkId(1) /\ wrote /\ Loaded.ok /\ Loaded.db.last_item_id = 1)

\* A create_epic on a store with no file failed and left no file.
C18_Witness ==
  /\ op = "create_epic"
  /\ ret = Err("No such file or directory")
  /\ ~wrote
  /\ ~file.exists

\* C20: whatever the file holds, write_db(s) followed by read_db succeeds and
\* returns a snapshot equal to s in last_item_id, epics and stories, for every
\* snapshot s; and every read_db after a write_db returned the snapshot last
\* written.
C20_FileRoundTrip ==
  /\ \A s \in RtSnapshots :
       LET load == JSONFile_read_db(JSONFile_write_db(file, s))
       IN  /\ load.ok
           /\ load.db.last_item_id = s.last_item_id
           /\ load.db.epics = s.epics
           /\ load.db.stories = s.stories
  /\ (op = "read_db" /\ written.called) => (ret.ok /\ pre = written.arg)

\* A read_db returned a written snapshot with a two-digit key, a counter and
\* a story list naming ids that are no stories of the snapshot.
C20_Witness ==
  /\ op = "read_db"
  /\ ret.ok
  /\ written.called
  /\ pre = written.arg
  /\ DOMAIN pre.epics = RtKeys
  /\ pre.epics[12].stories = <<2, 12>>
  /\ pre.epics[1].status = "Resolved"
  /\ pre.last_item_id = 12
  /\ pre.stories = <<>>

\* C19: nothing keeps a process from loading while another is between its
\* load and its persist, and a persist replaces the whole file: the file is
\* always exactly the snapshot of the latest persist, and the snapshot a
\* process is about to persist will be the whole file whatever the file has
\* come to hold since that process loaded.
C19_LastWriterWins ==
  /\ written.called => (Loaded.ok /\ Loaded.db = written.arg)
  /\ \A p \in Procs :
       (procs[p].pc = "loaded" /\ procs[p].out.wrote) =>
         LET load == JSONFile_read_db(JSONFile_write_db(file, procs[p].out.db))
         IN  load.ok /\ load.db = procs[p].out.db
  /\ \A p \in Procs :
       (procs[p].pc = "idle" /\ Loaded.db.last_item_id < MaxRaceId) =>
         ENABLED Load(p)

\* A lost update: B loaded between A's load and A's persist, both create_epic
\* calls returned Ok(1), B persisted last, and the epic A created is absent
\* from the file.
C19_Witness ==
  /\ procs["A"].pc = "idle" /\ procs["B"].pc = "idle"
  /\ "A" \in procs["B"].during
  /\ procs["A"].ret = OkId(1) /\ procs["B"].ret = OkId(1)
  /\ procs["A"].out.wrote /\ procs["B"].out.wrote
  /\ Loaded.ok
  /\ Loaded.db = procs["B"].out.db
  /\ \A id \in DOMAIN Loaded.db.epics :
       Loaded.db.epics[id] # procs["A"].out.db.epics[1]

\* C21 as stated: for every counter value read_db can load, u32::MAX
\* included, create_epic returns last_item_id + 1 without error, persists it,
\* and the counter does not wrap to a smaller value.
C21_CreateEpicAlwaysSucceeds ==
  op = "create_epic" =>
    /\ ret.ok
    /\ wrote
    /\ IsSuccessor(pre.last_item_id, ret.id)
    /\ last_item_id = ret.id
    /\ U32Less(pre.last_item_id, last_item_id)

\* The epics and the stories of two snapshots whose status differs.
StatusChanged(before, after) ==
  {<<"epic", id>> : id \in {e \in DOMAIN before.epics :
                              before.epics[e].status # after.epics[e].status}}
  \cup
  {<<"story", id>> : id \in {t \in DOMAIN before.stories :
                               before.stories[t].status # after.stories[t].status}}

\* after is before up to the status fields of its items.
SameButStatus(before, after) ==
  /\ after.last_item_id = before.last_item_id
  /\ DOMAIN after.epics = DOMAIN before.epics
  /\ DOMAIN after.stories = DOMAIN before.stories
  /\ \A e \in DOMAIN before.epics :
       /\ after.epics[e].name = before.epics[e].name
       /\ after.epics[e].description = before.epics[e].description
       /\ after.epics[e].stories = before.epics[e].stories
  /\ \A t \in DOMAIN before.stories :
       /\ after.stories[t].name = before.stories[t].name
       /\ after.stories[t].description = before.stories[t].description

\* C22: a successful update_epic_status or update_story_status changes only
\* the status field of the item it names: the counter, the key sets, every
\* name, description and story list, and the status of every other item are
\* the same before and after.
C22_StatusUpdateFrame ==
  /\ \A epic_id \in DOMAIN epics, status \in Status :
       LET after == Persisted(update_epic_status(read_db, epic_id, status))
       IN  /\ SameButStatus(read_db, after)
           /\ StatusChanged(read_db, after) \subseteq {<<"epic", epic_id>>}
  /\ \A story_id \in DOMAIN stories, status \in Status :
       LET after == Persisted(update_story_status(read_db, story_id, status))
       IN  /\ SameButStatus(read_db, after)
           /\ StatusChanged(read_db, after) \subseteq {<<"story", story_id>>}
  /\ (op = "update_epic_status" /\ ret.ok) =>
       /\ SameButStatus(pre, last_written_state)
       /\ \E e \in DOMAIN pre.epics :
            StatusChanged(pre, last_written_state) \subseteq {<<"epic", e>>}
  /\ (op = "update_story_status" /\ ret.ok) =>
       /\ SameButStatus(pre, last_written_state)
       /\ \E t \in DOMAIN pre.stories :
            StatusChanged(pre, last_written_state) \subseteq {<<"story", t>>}

\* An update_epic_status changed the status of an epic that has a story,
\* next to another epic, and left everything else as it was.
C22_Witness ==
  /\ op = "update_epic_status"
  /\ ret.ok
  /\ Cardinality(DOMAIN epics) >= 2
  /\ \E e \in DOMAIN epics :
       /\ epics[e].stories # <<>>
       /\ Range(epics[e].stories) \subseteq DOMAIN stories
       /\ StatusChanged(pre, last_written_state) = {<<"epic", e>>}
  /\ SameButStatus(pre, last_written_state)

====
